---- MODULE Spec2Model ----
(***************************************************************************)
(* Model of argus/handler.py: the websocket sessions                       *)
(* (ArgusWebSocketHandler), the per-path event handler (Argus), the two    *)
(* module-level registry tables and the watchdog Observer threads that     *)
(* call into the handlers.                                                 *)
(*                                                                         *)
(* Strings that the code takes apart (paths) are sequences of one-letter   *)
(* strings; lists are sequences; dicts are functions on their key set.     *)
(* open() and on_close() run on the single tornado IOLoop thread, so each  *)
(* is one action.  Every Observer has its own dispatcher thread: its calls *)
(* into Argus.on_* / write_msg are interleaved with the IOLoop one list    *)
(* operation at a time (iterator step, write_message).                     *)
(***************************************************************************)
EXTENDS Naturals, Sequences, FiniteSets, TLC

\* ------------------------------------------------------------------ bounds
NSessions == 2      \* websocket connections, each runs open() once
MaxEvents == 2      \* filesystem events reported by all Observers together
MaxArgs == 2        \* length of the enable / disable lists tried on define_options
MaxNest == 1        \* how often the watch root's own name recurs below it in an event's path

Sessions == 1..NSessions
None == 0           \* Python None for a session's observer field

\* ------------------------------------------------------------ list helpers
set(l) == {l[i] : i \in DOMAIN l}

RECURSIVE list(_)
\* list(<a set>): some enumeration of the set, the order is not used by the code
list(S) == IF S = {} THEN <<>> ELSE LET x == CHOOSE y \in S : TRUE IN <<x>> \o list(S \ {x})

RECURSIVE remove(_, _)
\* list.remove(x): drops the first occurrence
remove(l, x) ==
    IF l = <<>> THEN <<>>
    ELSE IF Head(l) = x THEN Tail(l) ELSE <<Head(l)>> \o remove(Tail(l), x)

\* --------------------------------------------------------- define_options
default_options == <<"CRfile", "CRdir", "MDfile", "MDdir", "MVfile", "MVdir", "DLfile", "DLdir">>

\* the 'all' branch without the filter to the valid tokens
define_options_unfiltered(enable, disable) ==
    IF disable = <<>> /\ enable = <<>> THEN default_options
    ELSE IF "all" \in set(disable) THEN list(set(enable))
    ELSE list(set(default_options) \ set(disable))

define_options(enable, disable) ==
    IF disable = <<>> /\ enable = <<>> THEN default_options
    ELSE IF "all" \in set(disable) THEN list(set(enable) \cap set(default_options))
    ELSE list(set(default_options) \ set(disable))

\* ------------------------------------------------------------------ paths
ARGUS_ROOT == <<"/", "r">>

\* os.path.join(a, b) for two components
join(a, b) ==
    IF b # <<>> /\ b[1] = "/" THEN b
    ELSE IF a = <<>> \/ a[Len(a)] = "/" THEN a \o b
    ELSE a \o <<"/">> \o b

RECURSIVE rstrip(_)
\* the directory a path string names: trailing separators do not matter to the OS
rstrip(p) == IF Len(p) > 1 /\ p[Len(p)] = "/" THEN rstrip(SubSeq(p, 1, Len(p) - 1)) ELSE p

\* the path segments a client may ask for (kwargs['path'])
ReqPaths == {<<"a">>, <<"a", "/">>}
Keys == {join(ARGUS_ROOT, p) : p \in ReqPaths}
Dirs == {rstrip(k) : k \in Keys}

\* re.sub(pattern, '', string): every non-overlapping match, leftmost first, is removed.
\* Of the regex metacharacters only "." (any character) occurs in the paths modelled.
MatchAt(pat, s) ==
    /\ Len(pat) <= Len(s)
    /\ \A j \in 1..Len(pat) : pat[j] = "." \/ pat[j] = s[j]

RECURSIVE sub(_, _)
sub(pat, s) ==
    IF s = <<>> \/ pat = <<>> THEN s
    ELSE IF MatchAt(pat, s) THEN sub(pat, SubSeq(s, Len(pat) + 1, Len(s)))
    ELSE <<Head(s)>> \o sub(pat, Tail(s))

\* ------------------------------------------------------- Argus event filter
\* Each on_* returns the list of messages it hands to write_msg: one or none.
\* "id" is the index of the reported event; it is not part of the JSON text.
on_created(options, root, event) ==
    IF (event.is_directory /\ "CRdir" \in set(options))
       \/ (~event.is_directory /\ "CRfile" \in set(options))
    THEN <<[id |-> event.id, event_type |-> "created", is_directory |-> event.is_directory,
            src_path |-> sub(root, event.src_path)]>>
    ELSE <<>>

on_modified(options, root, event) ==
    IF (event.is_directory /\ "MDdir" \in set(options))
       \/ (~event.is_directory /\ "MDfile" \in set(options))
    THEN <<[id |-> event.id, event_type |-> "modified", is_directory |-> event.is_directory,
            src_path |-> sub(root, event.src_path)]>>
    ELSE <<>>

\* the test copied from on_modified with its tokens left as they were
on_deleted_modified_tokens(options, root, event) ==
    IF (event.is_directory /\ "MDdir" \in set(options))
       \/ (~event.is_directory /\ "MDfile" \in set(options))
    THEN <<[id |-> event.id, event_type |-> "deleted", is_directory |-> event.is_directory,
            src_path |-> sub(root, event.src_path)]>>
    ELSE <<>>

on_deleted(options, root, event) ==
    IF (event.is_directory /\ "DLdir" \in set(options))
       \/ (~event.is_directory /\ "DLfile" \in set(options))
    THEN <<[id |-> event.id, event_type |-> "deleted", is_directory |-> event.is_directory,
            src_path |-> sub(root, event.src_path)]>>
    ELSE <<>>

on_moved(options, root, event) ==
    IF (event.is_directory /\ "MVdir" \in set(options))
       \/ (~event.is_directory /\ "MVfile" \in set(options))
    THEN <<[id |-> event.id, event_type |-> "moved", is_directory |-> event.is_directory,
            src_path |-> sub(root, event.src_path),
            dest_path |-> sub(root, event.dest_path)]>>
    ELSE <<>>

\* the Observer's dispatcher picks the method by the kind of the event
dispatch(options, root, event) ==
    CASE event.kind = "created" -> on_created(options, root, event)
      [] event.kind = "modified" -> on_modified(options, root, event)
      [] event.kind = "deleted" -> on_deleted(options, root, event)
      [] event.kind = "moved" -> on_moved(options, root, event)

\* -------------------------------------------------------- Argus socket list
\* the list is rebuilt around the newcomer instead of extended
add_socket_replace(websockets, wbsocket) == <<wbsocket>>

add_socket(websockets, wbsocket) == Append(websockets, wbsocket)

\* the list is emptied instead of losing one entry
remove_socket_clear(websockets, wbsocket) == <<>>

remove_socket(websockets, wbsocket) ==
    IF wbsocket \in set(websockets) THEN remove(websockets, wbsocket) ELSE websockets

\* ------------------------------------------------------------------ state
VARIABLES
    active_handlers,    \* module dict: path -> the Argus handler watching it
    active_observers,   \* module dict: path -> the Observer watching it
    handler,            \* handler[h]: the Argus object built by session h (websockets, root, options)
    observer,           \* observer[o]: the Observer built by session o: the path it is scheduled
                        \* on and its state, "none", "failed", "running" or "stopped"
    session,            \* session[s]: the fields of ArgusWebSocketHandler s and where its life cycle is
    closed,             \* closed[s]: the transport of s no longer takes writes
    outbox,             \* outbox[s]: what write_message has put on the transport of s, in order
    notifier,           \* notifier[o]: the dispatcher thread of Observer o inside Argus.write_msg
    nEvents,            \* number of filesystem events reported so far
    call                \* a single call of define_options: its arguments and its result

vars == <<active_handlers, active_observers, handler, observer, session, closed, outbox,
          notifier, nEvents, call>>

NoHandler == [websockets |-> <<>>, root |-> <<>>, options |-> <<>>]
NoObserver == [state |-> "none", path |-> <<>>]
NoSession == [pc |-> "init", path |-> <<>>, started_observer |-> FALSE, observer |-> None,
              enable |-> <<>>, disable |-> <<>>, callback |-> FALSE]
Idle == [pc |-> "idle", message |-> <<>>, i |-> 0, wbsocket |-> None, start |-> {}]
NoCall == [pc |-> "none", enable |-> <<>>, disable |-> <<>>, options |-> <<>>]

PathDoesNotExist == [text |-> "Path does not exist."]
CannotStartObserver == [text |-> "Cannot start observer"]

\* the enable / disable query arguments a client may send
ReqArgs == {<< <<>>, <<>> >>, << <<"CRfile">>, <<"all">> >>, << <<>>, <<"all">> >>}

\* the events an Observer scheduled on root may report
FsEvents(root, id) ==
    {[id |-> id, kind |-> "created", is_directory |-> FALSE,
      src_path |-> join(root, <<"x">>), dest_path |-> <<>>],
     [id |-> id, kind |-> "moved", is_directory |-> TRUE,
      src_path |-> join(root, <<"x">>), dest_path |-> join(root, <<"y">>)]}

Init ==
    /\ active_handlers = <<>>
    /\ active_observers = <<>>
    /\ handler = [h \in Sessions |-> NoHandler]
    /\ observer = [o \in Sessions |-> NoObserver]
    /\ session = [s \in Sessions |-> NoSession]
    /\ closed = [s \in Sessions |-> FALSE]
    /\ outbox = [s \in Sessions |-> <<>>]
    /\ notifier = [o \in Sessions |-> Idle]
    /\ nEvents = 0
    /\ call = NoCall

\* ------------------------------------------------------------ dict helpers
\* the assignment is lost
setitem_skip(d, k, v) == d

setitem(d, k, v) == [x \in DOMAIN d \cup {k} |-> IF x = k THEN v ELSE d[x]]
\* the entry is left in the table
delitem_keep(d, k) == d

delitem(d, k) == [x \in DOMAIN d \ {k} |-> d[x]]

\* the lookup that never finds the path
is_watched_never(path) == FALSE

\* `self.path in active_observers`
is_watched(path) == path \in DOMAIN active_observers

\* ------------------------------------------------- ArgusWebSocketHandler
\* open(): stores the request, starts the keepalive callback, runs initiation_handler.
\* present is what os.path.exists(self.path) answers at this moment (the directory
\* tree changes under the program); started is the outcome of Observer.start(),
\* FALSE when it raises OSError.  The query arguments are read (get_arguments) only
\* on the way to a new handler; they are kept with the session wherever it subscribes.
\* Each branch of initiation_handler is one operator; me is the session record
\* with the fields set before the branch.

\* only the Observer is entered in its table
start_ok_one_table(s, me, path, options) ==
    /\ handler' = [handler EXCEPT ![s] = [websockets |-> <<s>>, root |-> path,
                                          options |-> options]]
    /\ observer' = [observer EXCEPT ![s] = [state |-> "running", path |-> path]]
    /\ active_observers' = setitem(active_observers, path, s)
    /\ session' = [session EXCEPT ![s] = [me EXCEPT !.observer = s, !.started_observer = TRUE]]
    /\ UNCHANGED <<active_handlers, outbox, closed>>

\* lines 169-186, start() succeeds: the pair is registered
start_ok(s, me, path, options) ==
    /\ handler' = [handler EXCEPT ![s] = [websockets |-> <<s>>, root |-> path,
                                          options |-> options]]
    /\ observer' = [observer EXCEPT ![s] = [state |-> "running", path |-> path]]
    /\ active_handlers' = setitem(active_handlers, path, s)
    /\ active_observers' = setitem(active_observers, path, s)
    /\ session' = [session EXCEPT ![s] = [me EXCEPT !.observer = s, !.started_observer = TRUE]]
    /\ UNCHANGED <<outbox, closed>>

\* the failure is reported but the pair is registered all the same (no return)
start_failed_registers(s, me, path, options) ==
    /\ handler' = [handler EXCEPT ![s] = [websockets |-> <<s>>, root |-> path,
                                          options |-> options]]
    /\ observer' = [observer EXCEPT ![s] = [state |-> "failed", path |-> path]]
    /\ outbox' = [outbox EXCEPT ![s] = Append(@, CannotStartObserver)]
    /\ closed' = [closed EXCEPT ![s] = TRUE]
    /\ active_handlers' = setitem(active_handlers, path, s)
    /\ active_observers' = setitem(active_observers, path, s)
    /\ session' = [session EXCEPT ![s] = [me EXCEPT !.observer = s, !.started_observer = TRUE]]

\* lines 169-183, start() raises OSError: diagnostic, close, return.
\* The Argus object built for the Observer that did not start is dropped with it.
start_failed(s, me, path, options) ==
    /\ observer' = [observer EXCEPT ![s] = [state |-> "failed", path |-> path]]
    /\ outbox' = [outbox EXCEPT ![s] = Append(@, CannotStartObserver)]
    /\ closed' = [closed EXCEPT ![s] = TRUE]
    /\ session' = [session EXCEPT ![s] = [me EXCEPT !.observer = s]]
    /\ UNCHANGED <<active_handlers, active_observers, handler>>

\* the emptiness test is missing: a pair is built for the empty option list
no_options_builds(s, me, path, options) == start_ok(s, me, path, options)

\* lines 167-168: `if options == []: return`
no_options(s, me, path, options) ==
    /\ session' = [session EXCEPT ![s] = me]
    /\ UNCHANGED <<active_handlers, active_observers, handler, observer, outbox, closed>>

\* lines 158-162: the path is watched, the session joins its handler
attach(s, me, path) ==
    /\ handler' = [handler EXCEPT ![active_handlers[path]].websockets = add_socket(@, s)]
    /\ session' = [session EXCEPT ![s] = [me EXCEPT !.observer = active_observers[path],
                                                    !.started_observer = TRUE]]
    /\ UNCHANGED <<active_handlers, active_observers, observer, outbox, closed>>

\* the diagnostic is sent but the handler goes on to subscribe (no return)
path_missing_no_return(s, me, path) ==
    /\ outbox' = [outbox EXCEPT ![s] = Append(@, PathDoesNotExist)]
    /\ closed' = [closed EXCEPT ![s] = TRUE]
    /\ IF is_watched(path) THEN
           /\ handler' = [handler EXCEPT ![active_handlers[path]].websockets = add_socket(@, s)]
           /\ session' = [session EXCEPT ![s] = [me EXCEPT !.observer = active_observers[path],
                                                           !.started_observer = TRUE]]
           /\ UNCHANGED <<active_handlers, active_observers, observer>>
       ELSE
           /\ handler' = [handler EXCEPT ![s] = [websockets |-> <<s>>, root |-> path,
                                                 options |-> default_options]]
           /\ observer' = [observer EXCEPT ![s] = [state |-> "running", path |-> path]]
           /\ active_handlers' = setitem(active_handlers, path, s)
           /\ active_observers' = setitem(active_observers, path, s)
           /\ session' = [session EXCEPT ![s] = [me EXCEPT !.observer = s,
                                                           !.started_observer = TRUE]]

\* lines 154-157: diagnostic, close, return
path_missing(s, me, path) ==
    /\ outbox' = [outbox EXCEPT ![s] = Append(@, PathDoesNotExist)]
    /\ closed' = [closed EXCEPT ![s] = TRUE]
    /\ session' = [session EXCEPT ![s] = me]
    /\ UNCHANGED <<active_handlers, active_observers, handler, observer>>

initiation_handler(s, reqpath, enable, disable, present, started) ==
    LET path == join(ARGUS_ROOT, reqpath)
        me == [session[s] EXCEPT !.pc = "open", !.callback = TRUE, !.path = path]
        asked == [me EXCEPT !.enable = enable, !.disable = disable]
        options == define_options(enable, disable)
    IN  IF ~present THEN path_missing(s, me, path)
        ELSE IF is_watched(path) THEN attach(s, asked, path)
        ELSE IF options = <<>> THEN no_options(s, asked, path, options)
        ELSE IF ~started THEN start_failed(s, asked, path, options)
        ELSE start_ok(s, asked, path, options)

\* Sessions are numbered in the order their connections are accepted.
open(s) ==
    /\ session[s].pc = "init"
    /\ \A t \in 1..(s - 1) : session[t].pc # "init"
    /\ \E reqpath \in ReqPaths, args \in ReqArgs, present \in BOOLEAN, started \in BOOLEAN :
           initiation_handler(s, reqpath, args[1], args[2], present, started)
    /\ UNCHANGED <<notifier, nEvents, call>>

\* the timer is left running
callback_stop_skipped(me) == me

\* self.callback.stop()
callback_stop(me) == [me EXCEPT !.callback = FALSE]

\* The PeriodicCallback started in open() fires while it has not been stopped and
\* sends a ping frame, which is no message of the outbox.
ping(s) ==
    /\ session[s].callback
    /\ UNCHANGED vars

\* on_close(): runs once for every opened connection, whoever closed it.
\* A missing registry key raises KeyError after the callback was stopped.
\* When it returns tornado drops the connection object: its fields and what was
\* written to its transport are gone, only "closed" is left of it.  The handler
\* of a stopped Observer is dropped likewise: its thread may still be inside
\* write_msg, over a list that is empty by then.
on_close(s) ==
    /\ session[s].pc = "open"
    /\ session' = [session EXCEPT ![s] = callback_stop([NoSession EXCEPT
                                              !.pc = "closed", !.callback = session[s].callback])]
    /\ closed' = [closed EXCEPT ![s] = TRUE]
    /\ outbox' = [outbox EXCEPT ![s] = <<>>]
    /\ IF session[s].started_observer /\ session[s].path \in DOMAIN active_handlers THEN
           LET h == active_handlers[session[s].path]
               websockets == remove_socket(handler[h].websockets, s)
           IN  /\ handler' = [handler EXCEPT ![h] = IF websockets = <<>> THEN NoHandler
                                                   ELSE [@ EXCEPT !.websockets = websockets]]
               /\ IF websockets = <<>> THEN
                      /\ observer' = [observer EXCEPT ![session[s].observer].state = "stopped"]
                      /\ active_observers' = delitem(active_observers, session[s].path)
                      /\ active_handlers' = delitem(active_handlers, session[s].path)
                  ELSE UNCHANGED <<observer, active_observers, active_handlers>>
       ELSE UNCHANGED <<handler, observer, active_observers, active_handlers>>
    /\ UNCHANGED <<notifier, nEvents, call>>

\* ------------------------------------------------------------ environment
\* The peer goes away: writes fail from now on, on_close has not run yet.
\* Nothing but write_message reads the transport, so the step is taken where it
\* can be seen: when a dispatcher thread is about to write to s.
disconnect(s) ==
    /\ session[s].pc = "open"
    /\ ~closed[s]
    /\ \E o \in Sessions : notifier[o].pc = "write" /\ notifier[o].wbsocket = s
    /\ closed' = [closed EXCEPT ![s] = TRUE]
    /\ UNCHANGED <<active_handlers, active_observers, handler, observer, session, outbox,
                   notifier, nEvents, call>>

\* --------------------------------------------- Observer dispatcher thread
\* The thread is alive while its Observer runs and no exception left its loop.
alive(o) == observer[o].state = "running" /\ notifier[o].pc # "raised"

\* An event is taken from the queue and handed to Argus.on_*; when the filter
\* passes, write_msg starts iterating the live list self.websockets.
report(o) ==
    /\ alive(o)
    /\ notifier[o].pc = "idle"
    /\ nEvents < MaxEvents
    /\ nEvents' = nEvents + 1
    /\ \E event \in FsEvents(handler[o].root, nEvents + 1) :
           LET messages == dispatch(handler[o].options, handler[o].root, event)
           IN  IF messages = <<>> THEN UNCHANGED notifier
               ELSE notifier' = [notifier EXCEPT ![o] =
                        [pc |-> "iter", message |-> messages[1], i |-> 0, wbsocket |-> None,
                         start |-> set(handler[o].websockets)]]
    /\ UNCHANGED <<active_handlers, active_observers, handler, observer, session, closed,
                   outbox, call>>

\* the iterator hands out an entry without moving on
write_msg_next_stuck(o) ==
    /\ notifier[o].pc = "iter"
    /\ IF notifier[o].i < Len(handler[o].websockets) THEN
           notifier' = [notifier EXCEPT ![o].pc = "write",
                            ![o].wbsocket = handler[o].websockets[notifier[o].i + 1]]
       ELSE notifier' = [notifier EXCEPT ![o] = Idle]
    /\ UNCHANGED <<active_handlers, active_observers, handler, observer, session, closed,
                   outbox, nEvents, call>>

\* `for wbsocket in self.websockets`: the list iterator reads the list as it is now
write_msg_next(o) ==
    /\ notifier[o].pc = "iter"
    /\ IF notifier[o].i < Len(handler[o].websockets) THEN
           notifier' = [notifier EXCEPT ![o].pc = "write", ![o].i = @ + 1,
                            ![o].wbsocket = handler[o].websockets[notifier[o].i + 1]]
       ELSE notifier' = [notifier EXCEPT ![o] = Idle]
    /\ UNCHANGED <<active_handlers, active_observers, handler, observer, session, closed,
                   outbox, nEvents, call>>

\* the write goes through whatever the state of the transport
write_message_unchecked(o) ==
    /\ notifier[o].pc = "write"
    /\ outbox' = [outbox EXCEPT ![notifier[o].wbsocket] = Append(@, notifier[o].message)]
    /\ notifier' = [notifier EXCEPT ![o].pc = "iter"]
    /\ UNCHANGED <<active_handlers, active_observers, handler, observer, session, closed,
                   nEvents, call>>

\* wbsocket.write_message(message): raises on a closed transport; nothing in
\* write_msg or on_* catches it, so it leaves the dispatcher's loop
write_message(o) ==
    /\ notifier[o].pc = "write"
    /\ IF closed[notifier[o].wbsocket] THEN
           /\ notifier' = [notifier EXCEPT ![o] = [Idle EXCEPT !.pc = "raised"]]
           /\ UNCHANGED outbox
       ELSE
           /\ outbox' = [outbox EXCEPT ![notifier[o].wbsocket] = Append(@, notifier[o].message)]
           /\ notifier' = [notifier EXCEPT ![o].pc = "iter"]
    /\ UNCHANGED <<active_handlers, active_observers, handler, observer, session, closed,
                   nEvents, call>>

Next ==
    \/ \E s \in Sessions : open(s)
    \/ \E s \in Sessions : on_close(s)
    \/ \E s \in Sessions : disconnect(s)
    \/ \E s \in Sessions : ping(s)
    \/ \E o \in Sessions : report(o)
    \/ \E o \in Sessions : write_msg_next(o)
    \/ \E o \in Sessions : write_message(o)

Spec == Init /\ [][Next]_vars

\* ---------------------------------------------- define_options on its own
ArgTokens == {"CRfile", "CRdir", "MVdir", "all", "bogus"}

RECURSIVE Lists(_)
Lists(n) == IF n = 0 THEN {<<>>} ELSE Lists(n - 1) \cup {Append(l, x) : l \in Lists(n - 1), x \in ArgTokens}

InitOptions ==
    /\ active_handlers = <<>>
    /\ active_observers = <<>>
    /\ handler = [h \in Sessions |-> NoHandler]
    /\ observer = [o \in Sessions |-> NoObserver]
    /\ session = [s \in Sessions |-> NoSession]
    /\ closed = [s \in Sessions |-> FALSE]
    /\ outbox = [s \in Sessions |-> <<>>]
    /\ notifier = [o \in Sessions |-> Idle]
    /\ nEvents = 0
    /\ \E enable \in Lists(MaxArgs), disable \in Lists(MaxArgs) :
           call = [pc |-> "call", enable |-> enable, disable |-> disable, options |-> <<>>]

define_options_call ==
    /\ call.pc = "call"
    /\ call' = [call EXCEPT !.pc = "return", !.options = define_options(call.enable, call.disable)]
    /\ UNCHANGED <<active_handlers, active_observers, handler, observer, session, closed,
                   outbox, notifier, nEvents>>

NextOptions == define_options_call

SpecOptions == InitOptions /\ [][NextOptions]_vars

\* ------------------------------------------------ the event filter on its own
\* One event handed to a handler with given options and root.
RECURSIVE Repeat(_, _)
Repeat(s, n) == IF n = 0 THEN <<>> ELSE s \o Repeat(s, n - 1)

\* paths below root: root/x, and x inside a directory tree that repeats root's name
EventPaths(root, name) == {join(Repeat(root, n), name) : n \in 1..(MaxNest + 1)}

EventKinds == {"created", "modified", "deleted", "moved"}

FilterEvents(root) ==
    {[id |-> 1, kind |-> k, is_directory |-> d, src_path |-> src, dest_path |-> <<>>] :
        k \in EventKinds \ {"moved"}, d \in BOOLEAN, src \in EventPaths(root, <<"x">>)}
    \cup
    {[id |-> 1, kind |-> "moved", is_directory |-> d, src_path |-> src, dest_path |-> dest] :
        d \in BOOLEAN, src \in EventPaths(root, <<"x">>), dest \in EventPaths(root, <<"y">>)}

InitFilter ==
    /\ active_handlers = <<>>
    /\ active_observers = <<>>
    /\ handler = [h \in Sessions |-> NoHandler]
    /\ observer = [o \in Sessions |-> NoObserver]
    /\ session = [s \in Sessions |-> NoSession]
    /\ closed = [s \in Sessions |-> FALSE]
    /\ outbox = [s \in Sessions |-> <<>>]
    /\ notifier = [o \in Sessions |-> Idle]
    /\ nEvents = 0
    /\ \E S \in SUBSET set(default_options), root \in Keys :
           \E event \in FilterEvents(root) :
               call = [pc |-> "call", options |-> list(S), root |-> root, event |-> event,
                       messages |-> <<>>]

dispatch_call ==
    /\ call.pc = "call"
    /\ call' = [call EXCEPT !.pc = "return",
                            !.messages = dispatch(call.options, call.root, call.event)]
    /\ UNCHANGED <<active_handlers, active_observers, handler, observer, session, closed,
                   outbox, notifier, nEvents>>

NextFilter == dispatch_call

SpecFilter == InitFilter /\ [][NextFilter]_vars

\* ================================================================== claims
Registry == <<active_handlers, active_observers>>

\* an event message for event id is among the messages ob holds for s
Written(ob, s, id) == \E k \in DOMAIN ob[s] : "id" \in DOMAIN ob[s][k] /\ ob[s][k].id = id

\* s is in the subscriber list of some handler
InSomeList(s) == \E h \in Sessions : s \in set(handler[h].websockets)

Subscribed(P) ==
    {s \in Sessions : session[s].pc = "open" /\ session[s].started_observer /\ session[s].path = P}

Starts(P) ==
    {o \in Sessions : observer[o].path = P /\ observer[o].state \in {"running", "stopped"}}

\* C1: for every path at most one Observer is running and at most one Argus
\* handler exists, whatever sessions opened and closed, in whatever order.
C1_OneMonitorPerPath ==
    \A P \in Keys :
        /\ Cardinality({o \in Sessions : observer[o].state = "running" /\ observer[o].path = P}) <= 1
        /\ Cardinality({h \in Sessions : handler[h].root = P}) <= 1

\* two sessions share the one handler of a path, one Observer runs for it
C1_Witness ==
    \E P \in DOMAIN active_handlers :
        /\ Len(handler[active_handlers[P]].websockets) >= 2
        /\ Cardinality({o \in Sessions : observer[o].state = "running" /\ observer[o].path = P}) = 1

\* C2: as long as no session has closed, the sessions that subscribed to a path
\* are exactly the entries of its handler's list, each once, and exactly one
\* Observer was started for the path.
C2_OneStartNSubscribers ==
    (\A s \in Sessions : session[s].pc # "closed") =>
        \A P \in Keys :
            Subscribed(P) # {} =>
                /\ Cardinality(Starts(P)) = 1
                /\ P \in DOMAIN active_handlers
                /\ Len(handler[active_handlers[P]].websockets) = Cardinality(Subscribed(P))
                /\ set(handler[active_handlers[P]].websockets) = Subscribed(P)

C2_Witness ==
    /\ \A s \in Sessions : session[s].pc # "closed"
    /\ \E P \in Keys : Cardinality(Subscribed(P)) >= 2 /\ Cardinality(Starts(P)) = 1

\* on_close of s runs while s is the only entry of its path's list
LastClose(s) ==
    /\ session[s].pc = "open"
    /\ session'[s].pc = "closed"
    /\ session[s].started_observer
    /\ session[s].path \in DOMAIN active_handlers
    /\ set(handler[active_handlers[session[s].path]].websockets) = {s}

\* s subscribes to a path that is not watched and whose earlier Observer was stopped
ResubscribeAfterStop(s) ==
    /\ session[s].pc = "init"
    /\ session'[s].started_observer
    /\ session'[s].path \notin DOMAIN active_observers
    /\ \E q \in Sessions : observer[q].state = "stopped" /\ observer[q].path = session'[s].path

C3_Step ==
    \A s \in Sessions :
        /\ LastClose(s) =>
               /\ observer'[active_observers[session[s].path]].state = "stopped"
               /\ session[s].path \notin DOMAIN active_observers'
               /\ session[s].path \notin DOMAIN active_handlers'
        /\ ResubscribeAfterStop(s) =>
               /\ session'[s].path \in DOMAIN active_observers'
               /\ session'[s].path \in DOMAIN active_handlers'
               /\ observer[active_observers'[session'[s].path]].state = "none"
               /\ observer'[active_observers'[session'[s].path]].state = "running"
               /\ handler[active_handlers'[session'[s].path]] = NoHandler
               /\ handler'[active_handlers'[session'[s].path]].websockets = <<s>>

\* C3: the close of a path's last subscriber stops the path's Observer and removes
\* the path from both tables; a later subscribe to the path registers an Observer
\* and a handler that did not exist before, and the Observer is running.
C3_LastCloseStopsThenFresh == [][C3_Step]_vars

\* a path whose first Observer was stopped is watched again by another one
C3_Witness ==
    \E q \in Sessions, P \in DOMAIN active_observers :
        /\ observer[q].state = "stopped" /\ observer[q].path = P
        /\ active_observers[P] # q
        /\ observer[active_observers[P]].state = "running"

\* C4: when write_msg has run through the list, every session that was attached
\* when the fan-out began and is attached still has been written the message.
C4_NoSubscriberSkipped ==
    \A o \in Sessions :
        (notifier[o].pc = "iter" /\ notifier[o].i >= Len(handler[o].websockets)) =>
            \A s \in notifier[o].start \cap set(handler[o].websockets) :
                Written(outbox, s, notifier[o].message.id)

\* C5: a write that fails leaves no other subscriber of the handler without the
\* message, and leaves the handler registered.
C5_Step ==
    \A o \in Sessions :
        (notifier[o].pc = "write" /\ notifier'[o].pc = "raised") =>
            /\ \A s \in set(handler[o].websockets) \ {notifier[o].wbsocket} :
                   Written(outbox', s, notifier[o].message.id)
            /\ UNCHANGED <<Registry, handler>>

C5_WriteFailureIsolated == [][C5_Step]_vars

\* the option token of an event message
Category(m) ==
    CASE m.event_type = "created" -> IF m.is_directory THEN "CRdir" ELSE "CRfile"
      [] m.event_type = "modified" -> IF m.is_directory THEN "MDdir" ELSE "MDfile"
      [] m.event_type = "deleted" -> IF m.is_directory THEN "DLdir" ELSE "DLfile"
      [] m.event_type = "moved" -> IF m.is_directory THEN "MVdir" ELSE "MVfile"

\* C6: every event message on a subscriber's transport is of a category that the
\* subscriber's own enable / disable arguments resolve to.
C6_OwnOptionsOnly ==
    \A s \in Sessions :
        (session[s].pc = "open" /\ session[s].started_observer) =>
            \A k \in DOMAIN outbox[s] :
                "id" \in DOMAIN outbox[s][k] =>
                    Category(outbox[s][k]) \in set(define_options(session[s].enable, session[s].disable))

Refused(s) == PathDoesNotExist \in set(outbox[s])

\* C7 as claimed: a session told 'Path does not exist.' is closed, was never
\* attached, and the tables hold no entry for its path.
C7_NoEntryForMissingPath ==
    \A s \in Sessions :
        Refused(s) =>
            /\ closed[s]
            /\ ~session[s].started_observer
            /\ ~InSomeList(s)
            /\ session[s].path \notin DOMAIN active_observers
            /\ session[s].path \notin DOMAIN active_handlers

C7_State ==
    \A s \in Sessions :
        Refused(s) =>
            /\ closed[s]
            /\ ~session[s].started_observer
            /\ ~InSomeList(s)
            /\ observer[s] = NoObserver
            /\ handler[s] = NoHandler

C7_Step ==
    \A s \in Sessions :
        /\ (session[s].pc = "init" /\ PathDoesNotExist \in set(outbox'[s])) =>
               /\ outbox'[s] = <<PathDoesNotExist>>
               /\ UNCHANGED <<Registry, handler, observer>>
        /\ (Refused(s) /\ session'[s].pc = "closed") => UNCHANGED <<Registry, handler, observer>>

\* C7 amended: a session told 'Path does not exist.' is closed, builds no handler
\* and no Observer and is never attached; its open and its on_close leave both
\* tables as they were.
C7_MissingPathLeavesRegistry == []C7_State /\ [][C7_Step]_vars

\* the refused session's path is in the tables: it was watched before it vanished
C7_Witness ==
    \E s \in Sessions : Refused(s) /\ session[s].path \in DOMAIN active_observers

StartFailed(s) == CannotStartObserver \in set(outbox[s])

\* t opens on an existing, unwatched path with a non-empty option list
NewWatch(t) ==
    /\ session[t].pc = "init"
    /\ session'[t].pc = "open"
    /\ PathDoesNotExist \notin set(outbox'[t])
    /\ session'[t].path \notin DOMAIN active_observers
    /\ define_options(session'[t].enable, session'[t].disable) # <<>>

C8_State ==
    \A s \in Sessions :
        StartFailed(s) =>
            /\ closed[s]
            /\ ~session[s].started_observer
            /\ ~InSomeList(s)
            /\ observer[s].state = "failed"

C8_Step ==
    \A s \in Sessions :
        /\ (session[s].pc = "init" /\ CannotStartObserver \in set(outbox'[s])) =>
               /\ outbox'[s] = <<CannotStartObserver>>
               /\ UNCHANGED <<Registry, handler>>
               /\ session'[s].path \notin DOMAIN active_observers'
               /\ session'[s].path \notin DOMAIN active_handlers'
               /\ \A o \in Sessions : observer'[o].state = "running" => observer[o].state = "running"
        /\ (StartFailed(s) /\ session'[s].pc = "closed") => UNCHANGED <<Registry, handler, observer>>
        /\ (NewWatch(s) /\ \E u \in Sessions : observer[u].state = "failed"
                                               /\ observer[u].path = session'[s].path) =>
               /\ observer[s].state = "none"
               /\ observer'[s].state \in {"running", "failed"}
               /\ observer'[s].path = session'[s].path

\* C8: a failed Observer.start() sends 'Cannot start observer' and closes the
\* session, leaves both tables as they were with no entry for the path, leaves no
\* Observer running that was not running before; the session's on_close changes
\* nothing; a later subscribe to the path builds and starts another Observer.
C8_StartFailureRollsBack == []C8_State /\ [][C8_Step]_vars

\* after a failed start on a path, a later session's Observer runs for that path
C8_Witness ==
    \E u \in Sessions, t \in Sessions :
        /\ observer[u].state = "failed"
        /\ observer[t].state = "running"
        /\ observer[t].path = observer[u].path
        /\ t > u

\* s opens on an existing, unwatched path with arguments that resolve to no option
EmptyResolution(s) ==
    /\ session[s].pc = "init"
    /\ session'[s].pc = "open"
    /\ PathDoesNotExist \notin set(outbox'[s])
    /\ session'[s].path \notin DOMAIN active_observers
    /\ define_options(session'[s].enable, session'[s].disable) = <<>>

\* an open session that neither subscribed nor was sent a diagnostic
Inert(s) ==
    /\ session[s].pc = "open"
    /\ ~session[s].started_observer
    /\ outbox[s] = <<>>

C9_Step ==
    \A s \in Sessions :
        /\ EmptyResolution(s) =>
               /\ UNCHANGED <<Registry, handler, observer>>
               /\ outbox'[s] = <<>>
               /\ ~closed'[s]
               /\ ~session'[s].started_observer
        /\ (Inert(s) /\ session'[s].pc = "closed") => UNCHANGED <<Registry, handler, observer>>

\* C9: an open on an existing, unwatched path whose arguments resolve to the empty
\* list builds nothing, changes no table, sends nothing and does not close the
\* connection; the session's on_close changes no table either.
C9_EmptyOptionsInert == [][C9_Step]_vars

\* the inert session is still open and its path has meanwhile been subscribed to
C9_Witness ==
    \E s \in Sessions :
        /\ Inert(s)
        /\ ~closed[s]
        /\ define_options(session[s].enable, session[s].disable) = <<>>
        /\ session[s].path \in DOMAIN active_observers

DefaultTokens == {"CRfile", "CRdir", "MDfile", "MDdir", "MVfile", "MVdir", "DLfile", "DLdir"}

\* C10: define_options returns, as a set, all eight tokens for two empty lists,
\* else enable restricted to the eight when disable holds 'all', else the eight
\* without those in disable, whatever enable holds.
C10_Resolution ==
    call.pc = "return" =>
        set(call.options) =
            IF call.enable = <<>> /\ call.disable = <<>> THEN DefaultTokens
            ELSE IF \E i \in DOMAIN call.disable : call.disable[i] = "all"
                 THEN {x \in DefaultTokens : \E i \in DOMAIN call.enable : call.enable[i] = x}
            ELSE {x \in DefaultTokens : \A i \in DOMAIN call.disable : call.disable[i] # x}

\* a non-empty enable with an empty disable has returned all eight tokens
C10_Witness ==
    /\ call.pc = "return"
    /\ call.enable # <<>>
    /\ call.disable = <<>>
    /\ Cardinality(set(call.options)) = 8

\* the option token the claim assigns to a kind of event
Token(kind, is_directory) ==
    CASE kind = "created" -> IF is_directory THEN "CRdir" ELSE "CRfile"
      [] kind = "modified" -> IF is_directory THEN "MDdir" ELSE "MDfile"
      [] kind = "deleted" -> IF is_directory THEN "DLdir" ELSE "DLfile"
      [] kind = "moved" -> IF is_directory THEN "MVdir" ELSE "MVfile"

\* C11: an event is forwarded exactly when the token of its kind and is_directory
\* is among the handler's options; the one message forwarded carries the kind as
\* event_type, the is_directory flag, and a dest_path exactly for a moved event.
C11_ForwardIffToken ==
    call.pc = "return" =>
        /\ (call.messages # <<>>) <=>
               (Token(call.event.kind, call.event.is_directory) \in set(call.options))
        /\ call.messages # <<>> =>
               /\ Len(call.messages) = 1
               /\ call.messages[1].event_type = call.event.kind
               /\ call.messages[1].is_directory = call.event.is_directory
               /\ ("dest_path" \in DOMAIN call.messages[1]) <=> (call.event.kind = "moved")

\* a deleted directory was forwarded by a handler that has DLdir but not MDdir
C11_Witness ==
    /\ call.pc = "return"
    /\ call.event.kind = "deleted"
    /\ call.event.is_directory
    /\ "MDdir" \notin set(call.options)
    /\ call.messages # <<>>

\* the path without its first Len(root) characters
StripPrefix(root, path) == SubSeq(path, Len(root) + 1, Len(path))

\* C13: the src_path of a forwarded message, and the dest_path of a moved one, is
\* the event's path without the leading watch root and nothing else removed.
C13_OnlyLeadingRootRemoved ==
    (call.pc = "return" /\ call.messages # <<>>) =>
        /\ call.messages[1].src_path = StripPrefix(call.root, call.event.src_path)
        /\ call.event.kind = "moved" =>
               call.messages[1].dest_path = StripPrefix(call.root, call.event.dest_path)

\* the ids of the event messages on the transport of s, in the order written
IsEvent(m) == "id" \in DOMAIN m

\* C12: the event messages on a subscriber's transport are in the order in which
\* the events were reported: ids strictly increase, so none is repeated or swapped.
C12_InReportOrder ==
    \A s \in Sessions :
        \A j \in DOMAIN outbox[s], k \in DOMAIN outbox[s] :
            (j < k /\ IsEvent(outbox[s][j]) /\ IsEvent(outbox[s][k])) =>
                outbox[s][j].id < outbox[s][k].id

\* a subscriber has been written two events
C12_Witness ==
    \E s \in Sessions :
        /\ session[s].started_observer
        /\ Len(outbox[s]) >= 2
        /\ IsEvent(outbox[s][1]) /\ IsEvent(outbox[s][2])

\* C14: while a dispatcher thread is inside the loop of write_msg, no step
\* changes the list it iterates.
C14_Step ==
    \A o \in Sessions :
        notifier[o].pc \in {"iter", "write"} => handler'[o].websockets = handler[o].websockets

C14_NoMutationDuringFanOut == [][C14_Step]_vars

\* the Observers entered in active_observers with a non-empty handler list
Registered ==
    {o \in Sessions : \E P \in DOMAIN active_observers :
        /\ active_observers[P] = o
        /\ P \in DOMAIN active_handlers
        /\ handler[active_handlers[P]].websockets # <<>>}

C16_ClosedSessionIsGone ==
    \A s \in Sessions :
        session[s].pc = "closed" =>
            /\ ~session[s].callback
            /\ ~ENABLED ping(s)
            /\ ~InSomeList(s)

\* the session that built a handler has closed and the handler lives on without it
C16_Witness ==
    \E s \in Sessions :
        /\ session[s].pc = "closed"
        /\ observer[s].state = "running"
        /\ handler[s].websockets # <<>>

\* C17: two registry keys never name the same directory.
C17_CanonicalKeys ==
    \A P \in DOMAIN active_observers, Q \in DOMAIN active_observers :
        rstrip(P) = rstrip(Q) => P = Q

\* C18: an open session with started_observer set has its path in both tables,
\* is in the list of the handler registered for the path, and holds the Observer
\* registered for the path.
C18_AttachedMeansRegistered ==
    \A s \in Sessions :
        (session[s].pc = "open" /\ session[s].started_observer) =>
            /\ session[s].path \in DOMAIN active_handlers
            /\ session[s].path \in DOMAIN active_observers
            /\ s \in set(handler[active_handlers[session[s].path]].websockets)
            /\ session[s].observer = active_observers[session[s].path]

\* a session holds the Observer that another session built, whose builder has closed
C18_Witness ==
    \E s \in Sessions :
        /\ session[s].pc = "open"
        /\ session[s].started_observer
        /\ session[s].observer # s
        /\ session[session[s].observer].pc = "closed"

\* C19: the two tables have the same keys.
C19_SameKeys == DOMAIN active_handlers = DOMAIN active_observers

\* one entry was removed and another is there
C19_Witness ==
    /\ DOMAIN active_handlers # {}
    /\ \E o \in Sessions : observer[o].state = "stopped"

C20_State ==
    \A s \in Sessions : session[s].pc = "closed" => outbox[s] = <<>>

C20_Step ==
    \A o \in Sessions :
        observer[o].state = "stopped" =>
            /\ (notifier[o].pc = "write" /\ notifier'[o].pc = "iter") => outbox' = outbox
            /\ notifier[o].pc = "idle" => notifier'[o].pc = "idle"

\* C20: nothing is written to the transport of a session whose on_close has run,
\* and the thread of a stopped Observer writes nothing and starts no fan-out.
C20_NothingAfterClose == []C20_State /\ [][C20_Step]_vars

\* a thread that had taken a session from the list found it closed at the write
C20_Witness ==
    \E s \in Sessions, o \in Sessions :
        /\ session[s].pc = "closed"
        /\ notifier[o].pc = "raised"

====
